---- MODULE Spec2Model ----
(***************************************************************************)
(* Model of backend/routes/llmRoutes.js: the /buy-tokens, /chat and        *)
(* /available-models handlers running as concurrent requests against the   *)
(* User collection, and the provider handlers /chat calls.                 *)
(*                                                                         *)
(* Every await of a handler that reaches the database or the upstream      *)
(* provider is a suspension point, so each handler is cut into one action  *)
(* per database/provider event together with the synchronous code that     *)
(* follows it.                                                             *)
(*                                                                         *)
(* The store behaves as MongoDB/Mongoose do for the calls the handlers     *)
(* make:                                                                   *)
(*  - reads of a transaction come from the snapshot taken at its first     *)
(*    read; its writes stay private until commitTransaction and are        *)
(*    discarded by abortTransaction;                                       *)
(*  - a transactional write to a document that another open transaction    *)
(*    has written, or that was changed after the snapshot, throws          *)
(*    (WriteConflict); a write outside a transaction waits for an open     *)
(*    transaction that has written the document;                           *)
(*  - doc.save() sends only the modified paths; an update of an array      *)
(*    element by position carries the loaded __v in its filter, replacing  *)
(*    an array carries it and increments it, a push only increments it;    *)
(*    a filter that matches nothing throws (VersionError).                 *)
(***************************************************************************)
EXTENDS Integers, Sequences, FiniteSets, TLC

\* ------------------------------------------------------------------ bounds
\* number of requests handled in one behaviour
NumReqs == 2
\* largest amount a /buy-tokens request asks to spend
MaxAmount == 6

Reqs == 1..NumReqs
Users == {"u1", "u2", "u3"}
\* request inputs
SellerIds == {"u1", "u3", "u0"}
TokenIds == {1, 2}
Amounts == 0..MaxAmount
KeyTypes == {"temp", "user", "other"}
KeyIds == {1, 2}
\* totalTokens values the upstream provider may report
Usages == {1, 4, 6}
\* req.body.message, by its length in characters; 0 is a missing message
MessageLens == {0, 17}
\* length in characters of the text the provider returns
ResponseLens == {8, 9}
\* the wall clock while the requests run; no handler reads it
CurrentTime == 7

\* ------------------------------------------------------------- documents
\* names are character sequences, so that the provider rule can inspect them
KeyName == <<"G", "P", "T", "-", "4">>
BundleName == <<"g", "p", "t", "-", "4">>
ClaudeKeyName == <<"C", "l", "a", "u", "d", "e">>
GeminiKeyName == <<"g", "e", "m", "i", "n", "i">>
\* a bundle whose display name names another provider than the key behind it
OtherBundleName == <<"g", "e", "m", "i", "n", "i", "-", "x">>
\* req.body.modelId
ModelIds == {<<"g", "p", "t", "-", "4">>, <<"c", "l", "a", "u", "d", "e", "-", "3">>}

EmptyDoc == [amount |-> 0, api_keys |-> <<>>, temporaryTokens |-> <<>>, v |-> 0]

\* The accounts before any request: u1 registered two keys and listed a bundle
\* carved from the first; u2 holds a bundle bought from u1 that is backed by
\* u1's second key; u3 registered a key and holds a bundle bought from u1 that
\* expired before CurrentTime. apiKeyName is empty where the bundle has none.
InitDb ==
  [u \in Users |->
     CASE u = "u1" ->
            [amount |-> 4,
             api_keys |-> << [id |-> 1, name |-> KeyName, available |-> 10],
                             [id |-> 2, name |-> ClaudeKeyName, available |-> 8] >>,
             temporaryTokens |->
               << [id |-> 1, name |-> BundleName, apiKeyName |-> KeyName,
                   tokensRemaining |-> 3,
                   expiresAt |-> 9, pricePerToken |-> 2, sellerId |-> "u1",
                   originalApiKeyId |-> 1] >>,
             v |-> 0]
       [] u = "u2" ->
            [amount |-> 12, api_keys |-> <<>>,
             temporaryTokens |->
               << [id |-> 1, name |-> OtherBundleName, apiKeyName |-> <<>>,
                   tokensRemaining |-> 8,
                   expiresAt |-> 9, pricePerToken |-> 2, sellerId |-> "u1",
                   originalApiKeyId |-> 2] >>,
             v |-> 0]
       [] OTHER ->
            [amount |-> 4,
             api_keys |-> << [id |-> 1, name |-> GeminiKeyName, available |-> 7] >>,
             temporaryTokens |->
               << [id |-> 2, name |-> BundleName, apiKeyName |-> <<>>,
                   tokensRemaining |-> 10,
                   expiresAt |-> 5, pricePerToken |-> 2, sellerId |-> "u1",
                   originalApiKeyId |-> 1] >>,
             v |-> 0]]

\* array.find(t => t._id.toString() === id): index of the first match, 0 if none
RECURSIVE FindFrom(_, _, _)
FindFrom(arr, id, i) ==
  IF i > Len(arr) THEN 0
  ELSE IF arr[i].id = id THEN i
  ELSE FindFrom(arr, id, i + 1)

FindIndexById(arr, id) == FindFrom(arr, id, 1)

\* buyer.temporaryTokens.findIndex(t => t.name === name && t.sellerId === sellerId)
RECURSIVE FindTokenFrom(_, _, _, _)
FindTokenFrom(arr, name, sellerId, i) ==
  IF i > Len(arr) THEN 0
  ELSE IF arr[i].name = name /\ arr[i].sellerId = sellerId THEN i
  ELSE FindTokenFrom(arr, name, sellerId, i + 1)

\* the lookup never finds the buyer's bundle
NeverExisting(arr, name, sellerId) == 0

ExistingTokenIndex(arr, name, sellerId) == FindTokenFrom(arr, name, sellerId, 1)

\* nothing is filtered out
KeepAll(arr, id) == arr

\* array.filter(t => t._id.toString() !== id)
RECURSIVE FilterOut(_, _)
FilterOut(arr, id) ==
  IF arr = <<>> THEN <<>>
  ELSE IF Head(arr).id = id THEN FilterOut(Tail(arr), id)
  ELSE <<Head(arr)>> \o FilterOut(Tail(arr), id)

\* Math.floor(amount / pricePerToken) for amount >= 0 and a positive price
TokensToReceive(amount, price) == amount \div price

\* the balance check left out
NoBalanceCheck(buyer, amount) == FALSE

\* line 96
InsufficientBalance(buyer, amount) == buyer.amount < amount

\* the supply check left out
NoSupplyCheck(token, tokensToReceive) == FALSE

\* line 114
InsufficientSupply(token, tokensToReceive) == token.tokensRemaining < tokensToReceive

\* an emptied bundle is kept
DepletedBelowZero(left) == left < 0

\* lines 157 and 234: the bundle is dropped from its collection
Depleted(left) == left <= 0

\* line 229
InsufficientTokens(tokensUsed, tempKey) == tokensUsed > tempKey.tokensRemaining

\* the owned key's check left out
NoAvailableCheck(userKey, tokensUsed) == FALSE

\* line 257
InsufficientAvailable(userKey, tokensUsed) == userKey.available < tokensUsed

\* tokensRemaining of the bundle with this _id in a document, 0 when it is absent
RemIn(doc, id) ==
  LET i == FindIndexById(doc.temporaryTokens, id)
  IN IF i = 0 THEN 0 ELSE doc.temporaryTokens[i].tokensRemaining

\* ----------------------------------------------------- what save() sends
NoDelta ==
  [setAmount |-> FALSE, amount |-> 0,
   setRem |-> FALSE, remId |-> 0, rem |-> 0,
   push |-> <<>>,
   setArr |-> FALSE, arr |-> <<>>,
   setAvail |-> FALSE, keyId |-> 0, available |-> 0,
   vWhere |-> FALSE, vInc |-> FALSE, v |-> 0]

\* the filter of the update matches the stored document
VersionOk(doc, d) == d.vWhere => doc.v = d.v

\* the stored document after the update
ApplyDelta(doc, d) ==
  [amount |-> IF d.setAmount THEN d.amount ELSE doc.amount,
   api_keys |->
     IF d.setAvail
     THEN [i \in DOMAIN doc.api_keys |->
             IF doc.api_keys[i].id = d.keyId
             THEN [doc.api_keys[i] EXCEPT !.available = d.available]
             ELSE doc.api_keys[i]]
     ELSE doc.api_keys,
   temporaryTokens |->
     (IF d.setArr THEN d.arr
      ELSE IF d.setRem
      THEN [i \in DOMAIN doc.temporaryTokens |->
              IF doc.temporaryTokens[i].id = d.remId
              THEN [doc.temporaryTokens[i] EXCEPT !.tokensRemaining = d.rem]
              ELSE doc.temporaryTokens[i]]
      ELSE doc.temporaryTokens) \o d.push,
   v |-> IF d.vInc THEN doc.v + 1 ELSE doc.v]

\* ------------------------------------------------------ provider inference
Lower(c) ==
  CASE c = "G" -> "g" [] c = "P" -> "p" [] c = "T" -> "t"
    [] c = "C" -> "c" [] c = "L" -> "l" [] c = "A" -> "a"
    [] c = "U" -> "u" [] c = "D" -> "d" [] c = "E" -> "e"
    [] c = "M" -> "m" [] c = "I" -> "i" [] c = "N" -> "n"
    [] OTHER -> c

toLowerCase(s) == [i \in DOMAIN s |-> Lower(s[i])]

includes(s, sub) ==
  \E i \in 0..(Len(s) - Len(sub)) :
     \A j \in 1..Len(sub) : s[i + j] = sub[j]

\* "unknown" stands for the thrown 'Unable to determine provider' error
getProviderFromModel(modelName) ==
  LET lower == toLowerCase(modelName) IN
  IF includes(lower, <<"g", "p", "t">>) THEN "openai"
  ELSE IF includes(lower, <<"c", "l", "a", "u", "d", "e">>) THEN "anthropic"
  ELSE IF includes(lower, <<"g", "e", "m", "i", "n", "i">>) THEN "gemini"
  ELSE "unknown"

\* line 224: tempKey.apiKeyName || originalApiKey.name
ProviderName(tempKey, originalApiKey) ==
  IF tempKey.apiKeyName # <<>> THEN tempKey.apiKeyName ELSE originalApiKey.name

\* ------------------------------------------------------- provider handlers
\* What the provider's API does with one call: ok is FALSE when the call errors
\* or times out; otherwise it returns a text and, for OpenAI, its token counts.
Upstream ==
  {[ok |-> ok, textLen |-> n, prompt_tokens |-> 1, completion_tokens |-> t - 1,
    total_tokens |-> t] : ok \in BOOLEAN, n \in ResponseLens, t \in Usages}

NoUsage == [promptTokens |-> 0, completionTokens |-> 0, totalTokens |-> 0]

\* the quotient rounded down
FloorQuarter(n) == n \div 4

\* Math.ceil(n / 4) for a length n >= 0
CeilQuarter(n) == IF n % 4 = 0 THEN n \div 4 ELSE n \div 4 + 1

\* lines 293-309
handleOpenAIRequest(message, modelId, up) ==
  [threw |-> ~up.ok, textLen |-> up.textLen,
   usage |-> [promptTokens |-> up.prompt_tokens,
              completionTokens |-> up.completion_tokens,
              totalTokens |-> up.total_tokens]]

\* the failure of the call is swallowed and an empty text is metered
AnthropicSwallowsError(message, modelId, up) ==
  LET promptTokens == CeilQuarter(message)
      completionTokens == IF up.ok THEN CeilQuarter(up.textLen) ELSE 0
  IN [threw |-> FALSE, textLen |-> IF up.ok THEN up.textLen ELSE 0,
      usage |-> [promptTokens |-> promptTokens,
                 completionTokens |-> completionTokens,
                 totalTokens |-> promptTokens + completionTokens]]

\* lines 311-330
handleAnthropicRequest(message, modelId, up) ==
  LET promptTokens == CeilQuarter(message)
      completionTokens == CeilQuarter(up.textLen)
  IN [threw |-> ~up.ok, textLen |-> up.textLen,
      usage |-> [promptTokens |-> promptTokens,
                 completionTokens |-> completionTokens,
                 totalTokens |-> promptTokens + completionTokens]]

\* lines 332-356
handleGeminiRequest(message, modelId, up) ==
  LET text == up.textLen
      promptTokens == CeilQuarter(message)
      completionTokens == CeilQuarter(text)
  IN [threw |-> ~up.ok, textLen |-> text,
      usage |-> [promptTokens |-> promptTokens,
                 completionTokens |-> completionTokens,
                 totalTokens |-> promptTokens + completionTokens]]

\* lines 280-291
handleProviderRequest(provider, message, modelId, up) ==
  CASE provider = "openai" -> handleOpenAIRequest(message, modelId, up)
    [] provider = "anthropic" -> handleAnthropicRequest(message, modelId, up)
    [] provider = "gemini" -> handleGeminiRequest(message, modelId, up)
    [] OTHER -> [threw |-> TRUE, textLen |-> 0, usage |-> NoUsage]

\* ------------------------------------------------------------------ state
VARIABLES
  db,      \* the committed User documents
  nextId,  \* the _id the next pushed subdocument receives
  pc,      \* where each request's handler stands
  rq,      \* each request's inputs, and what the store held when it arrived
  loc,     \* each handler's local variables
  txn,     \* each /buy-tokens request's session and transaction
  res      \* each request's response

vars == <<db, nextId, pc, rq, loc, txn, res>>

NoRq ==
  [kind |-> "none", uid |-> "u0", sellerId |-> "u0", tokenId |-> 0, amount |-> 0,
   keyType |-> "none", keyId |-> 0, modelId |-> <<>>, message |-> 0,
   \* history read by the properties only: the requests answered before this
   \* one arrived, and the buyer's balance, the source's supply, the source's
   \* stored name (empty when it was not found) and the bundle's expiresAt
   \* (0 when there is none) at that time
   after |-> {}, balance |-> 0, supply |-> 0, name |-> <<>>, expiresAt |-> 0]

NoLoc ==
  [buyer |-> EmptyDoc, seller |-> EmptyDoc, user |-> EmptyDoc,
   tokensToReceive |-> 0, actualAmount |-> 0, purchasedId |-> 0,
   buyerDelta |-> NoDelta, sellerDelta |-> NoDelta, userDelta |-> NoDelta,
   provider |-> "none", seen |-> 0, srcRem |-> 0, tokensUsed |-> 0,
   \* how the upstream call ended ("none" while no call has returned), and the
   \* response the provider handler built from it
   sent |-> "none", textLen |-> 0, usage |-> NoUsage]

EmptySnap == [u \in Users |-> EmptyDoc]

NoTxn == [state |-> "none", hasSnap |-> FALSE, snap |-> EmptySnap,
          written |-> {}, stale |-> {}]

NoRes == [status |-> 0, message |-> "", error |-> "", tokensReceived |-> 0,
          amountSpent |-> 0, remaining |-> 0, provider |-> "none"]

Init ==
  /\ db = InitDb
  /\ nextId = 10
  /\ pc = [r \in Reqs |-> "idle"]
  /\ rq = [r \in Reqs |-> NoRq]
  /\ loc = [r \in Reqs |-> NoLoc]
  /\ txn = [r \in Reqs |-> NoTxn]
  /\ res = [r \in Reqs |-> NoRes]

\* requests arrive one after the other
Arrives(r) ==
  /\ pc[r] = "idle"
  /\ \A q \in Reqs : q < r => pc[q] # "idle"

Done(r) == pc[r] = "done"

Reply(status, message) == [NoRes EXCEPT !.status = status, !.message = message]

\* the transaction of r is open and its handler is still running
Active(q) == txn[q].state = "open" /\ txn[q].hasSnap /\ pc[q] # "done"

\* saves that run outside the transaction never conflict
NoWriteConflict(r, u) == FALSE

\* a write to document u inside r's transaction throws a write conflict
WriteConflict(r, u) ==
  \/ u \in txn[r].stale
  \/ \E q \in Reqs \ {r} : txn[q].state = "open" /\ u \in txn[q].written

\* documents changed in the store become stale in every running snapshot
MarkStale(t, r, us) ==
  [q \in Reqs |->
     IF q # r /\ Active(q) THEN [t[q] EXCEPT !.stale = @ \cup us] ELSE t[q]]

\* session.abortTransaction(); session.endSession(): staged writes are dropped
Aborted(t) == [NoTxn EXCEPT !.state = "aborted"]

\* the commit writes back every document of the snapshot
CommittedWhole(d, t) == t.snap

\* the store after commitTransaction: every staged document becomes visible
Committed(d, t) == [u \in Users |-> IF u \in t.written THEN t.snap[u] ELSE d[u]]

\* ------------------------------------------------------------ /buy-tokens
\* lines 79-98: open the transaction, validate, read the buyer
BuyBegin(r) ==
  /\ Arrives(r)
  /\ \E uid \in Users, sellerId \in SellerIds, tokenId \in TokenIds, amount \in Amounts :
       LET buyer == db[uid] IN
       /\ rq' = [rq EXCEPT ![r] = [NoRq EXCEPT !.kind = "buy", !.uid = uid,
                                     !.sellerId = sellerId, !.tokenId = tokenId,
                                     !.amount = amount,
                                     !.after = {q \in Reqs : Done(q)},
                                     !.balance = buyer.amount,
                                     !.supply = IF sellerId \in Users
                                                THEN RemIn(db[sellerId], tokenId)
                                                ELSE 0]]
       /\ IF amount <= 0
          THEN /\ txn' = [txn EXCEPT ![r] = [NoTxn EXCEPT !.state = "open"]]
               /\ res' = [res EXCEPT ![r] = Reply(400, "invalid input")]
               /\ pc' = [pc EXCEPT ![r] = "done"]
               /\ loc' = loc
          ELSE IF InsufficientBalance(buyer, amount)
          THEN /\ txn' = [txn EXCEPT ![r] = [NoTxn EXCEPT !.state = "open"]]
               /\ res' = [res EXCEPT ![r] = Reply(400, "Insufficient balance")]
               /\ pc' = [pc EXCEPT ![r] = "done"]
               /\ loc' = loc
          ELSE /\ txn' = [txn EXCEPT ![r] = [NoTxn EXCEPT !.state = "open",
                                               !.hasSnap = TRUE, !.snap = db]]
               /\ loc' = [loc EXCEPT ![r].buyer = buyer]
               /\ pc' = [pc EXCEPT ![r] = "fetchSeller"]
               /\ res' = res
  /\ UNCHANGED <<db, nextId>>

\* an early return sends its response with the transaction still open
Reject(r, status, message) ==
  /\ res' = [res EXCEPT ![r] = Reply(status, message)]
  /\ pc' = [pc EXCEPT ![r] = "done"]
  /\ txn' = [txn EXCEPT ![r] = [NoTxn EXCEPT !.state = "open"]]
  /\ UNCHANGED <<db, nextId, rq, loc>>

\* lines 101-159: read the seller, compute the transfer, stage it on both documents
BuyFetchSeller(r) ==
  /\ rq[r].kind = "buy"
  /\ pc[r] = "fetchSeller"
  /\ LET sellerId == rq[r].sellerId
         tokenId == rq[r].tokenId
         amount == rq[r].amount
         buyer == loc[r].buyer
     IN
     IF sellerId \notin Users
     THEN Reject(r, 404, "Seller not found")
     ELSE
     LET seller == txn[r].snap[sellerId]
         ti == FindIndexById(seller.temporaryTokens, tokenId)
     IN
     IF ti = 0
     THEN Reject(r, 404, "Token not found")
     ELSE
     LET token == seller.temporaryTokens[ti]
         tokensToReceive == TokensToReceive(amount, token.pricePerToken)
     IN
     IF tokensToReceive <= 0
     THEN Reject(r, 400, "Amount too small to purchase any tokens")
     ELSE IF InsufficientSupply(token, tokensToReceive)
     THEN Reject(r, 400, "Seller does not have enough tokens available")
     ELSE
     LET actualAmount == tokensToReceive * token.pricePerToken
         left == token.tokensRemaining - tokensToReceive
         ei == ExistingTokenIndex(buyer.temporaryTokens, token.name, sellerId)
         newToken == [id |-> nextId, name |-> token.name, apiKeyName |-> <<>>,
                      tokensRemaining |-> tokensToReceive,
                      expiresAt |-> token.expiresAt,
                      pricePerToken |-> token.pricePerToken,
                      sellerId |-> sellerId,
                      originalApiKeyId |-> token.originalApiKeyId]
         buyerTokens ==
           IF ei # 0
           THEN [buyer.temporaryTokens EXCEPT ![ei].tokensRemaining = @ + tokensToReceive]
           ELSE Append(buyer.temporaryTokens, newToken)
         sellerTokens ==
           IF Depleted(left)
           THEN FilterOut(seller.temporaryTokens, tokenId)
           ELSE [seller.temporaryTokens EXCEPT ![ti].tokensRemaining = left]
         buyerDelta ==
           IF ei # 0
           THEN [NoDelta EXCEPT !.setAmount = TRUE, !.amount = buyer.amount - actualAmount,
                                !.setRem = TRUE, !.remId = buyer.temporaryTokens[ei].id,
                                !.rem = buyerTokens[ei].tokensRemaining,
                                !.vWhere = TRUE, !.v = buyer.v]
           ELSE [NoDelta EXCEPT !.setAmount = TRUE, !.amount = buyer.amount - actualAmount,
                                !.push = <<newToken>>, !.vInc = TRUE, !.v = buyer.v]
         sellerDelta ==
           IF Depleted(left)
           THEN [NoDelta EXCEPT !.setAmount = TRUE, !.amount = seller.amount + actualAmount,
                                !.setArr = TRUE, !.arr = sellerTokens,
                                !.vWhere = TRUE, !.vInc = TRUE, !.v = seller.v]
           ELSE [NoDelta EXCEPT !.setAmount = TRUE, !.amount = seller.amount + actualAmount,
                                !.setRem = TRUE, !.remId = tokenId, !.rem = left,
                                !.vWhere = TRUE, !.v = seller.v]
     IN
     /\ loc' = [loc EXCEPT ![r] =
                  [@ EXCEPT !.buyer = [buyer EXCEPT !.amount = @ - actualAmount,
                                                    !.temporaryTokens = buyerTokens],
                            !.seller = [seller EXCEPT !.amount = @ + actualAmount,
                                                      !.temporaryTokens = sellerTokens],
                            !.seen = token.tokensRemaining,
                            !.tokensToReceive = tokensToReceive,
                            !.actualAmount = actualAmount,
                            !.purchasedId = IF ei # 0 THEN buyer.temporaryTokens[ei].id
                                            ELSE nextId,
                            !.buyerDelta = buyerDelta,
                            !.sellerDelta = sellerDelta]]
     /\ nextId' = IF ei # 0 THEN nextId ELSE nextId + 1
     /\ pc' = [pc EXCEPT ![r] = "saveBuyer"]
     /\ UNCHANGED <<db, rq, txn, res>>

\* lines 180-185: the catch block aborts, ends the session and answers 500
Fail(r, error) ==
  /\ txn' = [txn EXCEPT ![r] = Aborted(txn[r])]
  /\ res' = [res EXCEPT ![r] = [Reply(500, "Failed to complete token purchase")
                                  EXCEPT !.error = error]]
  /\ pc' = [pc EXCEPT ![r] = "done"]
  /\ UNCHANGED <<db, nextId, rq, loc>>

\* doc.save({ session }) of document u with the staged delta d
SaveInTxn(r, u, d, next) ==
  \E fails \in BOOLEAN :
    IF WriteConflict(r, u)
    THEN Fail(r, "WriteConflict")
    ELSE IF ~VersionOk(txn[r].snap[u], d)
    THEN Fail(r, "VersionError")
    ELSE IF fails
    THEN Fail(r, "storage")
    ELSE /\ txn' = [txn EXCEPT ![r].snap[u] = ApplyDelta(@, d),
                               ![r].written = @ \cup {u}]
         /\ pc' = [pc EXCEPT ![r] = next]
         /\ UNCHANGED <<db, nextId, rq, loc, res>>

\* line 162
BuySaveBuyer(r) ==
  /\ pc[r] = "saveBuyer"
  /\ SaveInTxn(r, rq[r].uid, loc[r].buyerDelta, "saveSeller")

\* line 163
BuySaveSeller(r) ==
  /\ pc[r] = "saveSeller"
  /\ SaveInTxn(r, rq[r].sellerId, loc[r].sellerDelta, "commit")

\* lines 165-179
BuyCommit(r) ==
  /\ pc[r] = "commit"
  /\ \E fails \in BOOLEAN :
       IF fails
       THEN Fail(r, "storage")
       ELSE /\ db' = Committed(db, txn[r])
            /\ txn' = [MarkStale(txn, r, txn[r].written) EXCEPT
                         ![r] = [NoTxn EXCEPT !.state = "committed"]]
            /\ res' = [res EXCEPT ![r] =
                         [NoRes EXCEPT
                            !.status = 200, !.message = "Tokens purchased successfully",
                            !.tokensReceived = loc[r].tokensToReceive,
                            !.amountSpent = loc[r].actualAmount,
                            !.remaining = loc[r].buyer.amount]]
            /\ pc' = [pc EXCEPT ![r] = "done"]
            /\ UNCHANGED <<nextId, rq, loc>>

\* ------------------------------------------------------------------ /chat
\* the handler answers without having written anything
Answer(r, status, message) ==
  /\ res' = [res EXCEPT ![r] = Reply(status, message)]
  /\ pc' = [pc EXCEPT ![r] = "done"]
  /\ UNCHANGED <<db, nextId, loc, txn>>

\* lines 191-209 (purchased bundle) and 247-254 (owned key): validate, read the
\* caller's account and locate the quota source
ChatBegin(r) ==
  /\ Arrives(r)
  /\ \E uid \in Users, keyType \in KeyTypes, keyId \in KeyIds,
        modelId \in ModelIds, message \in MessageLens :
       LET user == db[uid]
           ti == FindIndexById(user.temporaryTokens, keyId)
           ki == FindIndexById(user.api_keys, keyId)
       IN
       /\ rq' = [rq EXCEPT ![r] = [NoRq EXCEPT !.kind = "chat", !.uid = uid,
                                     !.keyType = keyType, !.keyId = keyId,
                                     !.modelId = modelId, !.message = message,
                                     !.after = {q \in Reqs : Done(q)},
                                     !.supply =
                                        IF keyType = "temp" THEN RemIn(user, keyId)
                                        ELSE IF keyType = "user" /\ ki # 0
                                        THEN user.api_keys[ki].available
                                        ELSE 0,
                                     !.name =
                                        IF keyType = "temp" /\ ti # 0
                                        THEN user.temporaryTokens[ti].name
                                        ELSE IF keyType = "user" /\ ki # 0
                                        THEN user.api_keys[ki].name
                                        ELSE <<>>,
                                     !.expiresAt =
                                        IF keyType = "temp" /\ ti # 0
                                        THEN user.temporaryTokens[ti].expiresAt
                                        ELSE 0]]
       /\ IF message = 0
          THEN Answer(r, 400, "Message, key type, key ID, and model ID are required")
          ELSE IF keyType = "temp"
          THEN IF ti = 0
               THEN Answer(r, 404, "Temporary API key not found")
               ELSE IF user.temporaryTokens[ti].tokensRemaining <= 0
               THEN Answer(r, 400, "Insufficient tokens. Please purchase more.")
               ELSE /\ loc' = [loc EXCEPT ![r].user = user,
                                          ![r].seen = user.temporaryTokens[ti].tokensRemaining]
                    /\ pc' = [pc EXCEPT ![r] = "fetchSeller"]
                    /\ UNCHANGED <<db, nextId, txn, res>>
          ELSE IF keyType = "user"
          THEN IF ki = 0
               THEN Answer(r, 404, "API key not found")
               ELSE IF getProviderFromModel(user.api_keys[ki].name) = "unknown"
               THEN Answer(r, 500, "Server error")
               ELSE /\ loc' = [loc EXCEPT ![r].user = user,
                                          ![r].seen = user.api_keys[ki].available,
                                          ![r].provider =
                                             getProviderFromModel(user.api_keys[ki].name)]
                    /\ pc' = [pc EXCEPT ![r] = "upstream"]
                    /\ UNCHANGED <<db, nextId, txn, res>>
          ELSE Answer(r, 400, "Invalid key type")

\* lines 212-226: read the seller's account and resolve the original key
ChatFetchSeller(r) ==
  /\ rq[r].kind = "chat"
  /\ pc[r] = "fetchSeller"
  /\ LET user == loc[r].user
         tempKey == user.temporaryTokens[FindIndexById(user.temporaryTokens, rq[r].keyId)]
     IN
     IF tempKey.sellerId \notin Users
     THEN Answer(r, 404, "Seller not found") /\ rq' = rq
     ELSE
     LET seller == db[tempKey.sellerId]
         oi == FindIndexById(seller.api_keys, tempKey.originalApiKeyId)
     IN
     IF oi = 0
     THEN Answer(r, 404, "Original API key not found") /\ rq' = rq
     ELSE
     LET provider == getProviderFromModel(ProviderName(tempKey, seller.api_keys[oi]))
     IN
     IF provider = "unknown"
     THEN Answer(r, 500, "Server error") /\ rq' = rq
     ELSE /\ loc' = [loc EXCEPT ![r].provider = provider]
          /\ pc' = [pc EXCEPT ![r] = "upstream"]
          /\ UNCHANGED <<db, nextId, rq, txn, res>>

\* lines 226-236 and 254-261: the provider answers (or the call throws); the
\* handler checks the cost against the quota it loaded and stages the debit
ChatUpstream(r) ==
  /\ pc[r] = "upstream"
  /\ \E up \in Upstream :
       LET user == loc[r].user
           keyId == rq[r].keyId
           response == handleProviderRequest(loc[r].provider, rq[r].message,
                                             rq[r].modelId, up)
           tokensUsed == response.usage.totalTokens
           sent == IF up.ok THEN "ok" ELSE "failed"
           metered == [loc[r] EXCEPT !.tokensUsed = tokensUsed, !.sent = sent,
                                     !.textLen = response.textLen,
                                     !.usage = response.usage]
       IN
       IF response.threw
       THEN /\ res' = [res EXCEPT ![r] =
                         [Reply(500, "Server error") EXCEPT !.error = "upstream"]]
            /\ loc' = [loc EXCEPT ![r].sent = sent]
            /\ pc' = [pc EXCEPT ![r] = "done"]
            /\ UNCHANGED <<db, nextId, rq, txn>>
       ELSE IF rq[r].keyType = "temp"
       THEN LET ti == FindIndexById(user.temporaryTokens, keyId)
                tempKey == user.temporaryTokens[ti]
                left == tempKey.tokensRemaining - tokensUsed
            IN
            IF InsufficientTokens(tokensUsed, tempKey)
            THEN /\ res' = [res EXCEPT ![r] =
                              Reply(400, "Insufficient tokens for this request.")]
                 /\ loc' = [loc EXCEPT ![r] = metered]
                 /\ pc' = [pc EXCEPT ![r] = "done"]
                 /\ UNCHANGED <<db, nextId, rq, txn>>
            ELSE /\ loc' = [loc EXCEPT ![r] =
                    [metered EXCEPT
                       !.user = [user EXCEPT !.temporaryTokens =
                                   IF Depleted(left)
                                   THEN FilterOut(user.temporaryTokens, keyId)
                                   ELSE [user.temporaryTokens EXCEPT
                                           ![ti].tokensRemaining = left]],
                       !.srcRem = left,
                       !.userDelta =
                          IF Depleted(left)
                          THEN [NoDelta EXCEPT !.setArr = TRUE,
                                               !.arr = FilterOut(user.temporaryTokens, keyId),
                                               !.vWhere = TRUE, !.vInc = TRUE, !.v = user.v]
                          ELSE [NoDelta EXCEPT !.setRem = TRUE, !.remId = keyId,
                                               !.rem = left,
                                               !.vWhere = TRUE, !.v = user.v]]]
                 /\ pc' = [pc EXCEPT ![r] = "save"]
                 /\ UNCHANGED <<db, nextId, rq, txn, res>>
       ELSE LET ki == FindIndexById(user.api_keys, keyId)
                userKey == user.api_keys[ki]
                left == userKey.available - tokensUsed
            IN
            IF InsufficientAvailable(userKey, tokensUsed)
            THEN /\ res' = [res EXCEPT ![r] =
                              Reply(400, "Insufficient available tokens for this request.")]
                 /\ loc' = [loc EXCEPT ![r] = metered]
                 /\ pc' = [pc EXCEPT ![r] = "done"]
                 /\ UNCHANGED <<db, nextId, rq, txn>>
            ELSE /\ loc' = [loc EXCEPT ![r] =
                    [metered EXCEPT
                       !.user = [user EXCEPT !.api_keys[ki].available = left],
                       !.srcRem = left,
                       !.userDelta = [NoDelta EXCEPT !.setAvail = TRUE, !.keyId = keyId,
                                                     !.available = left,
                                                     !.vWhere = TRUE, !.v = user.v]]]
                 /\ pc' = [pc EXCEPT ![r] = "save"]
                 /\ UNCHANGED <<db, nextId, rq, txn, res>>

\* some open transaction has written document u, so a plain write to u waits
Locked(u) == \E q \in Reqs : txn[q].state = "open" /\ u \in txn[q].written

\* lines 238-245 and 262-268: user.save() outside any transaction, then the answer
ChatSave(r) ==
  /\ pc[r] = "save"
  /\ ~Locked(rq[r].uid)
  /\ \E fails \in BOOLEAN :
       IF fails \/ ~VersionOk(db[rq[r].uid], loc[r].userDelta)
       THEN /\ res' = [res EXCEPT ![r] =
                         [Reply(500, "Server error") EXCEPT !.error =
                            IF VersionOk(db[rq[r].uid], loc[r].userDelta)
                            THEN "storage" ELSE "VersionError"]]
            /\ pc' = [pc EXCEPT ![r] = "done"]
            /\ UNCHANGED <<db, nextId, rq, loc, txn>>
       ELSE /\ db' = [db EXCEPT ![rq[r].uid] = ApplyDelta(@, loc[r].userDelta)]
            /\ txn' = MarkStale(txn, r, {rq[r].uid})
            /\ res' = [res EXCEPT ![r] =
                         [NoRes EXCEPT !.status = 200, !.message = "ok",
                                       !.remaining = loc[r].srcRem]]
            /\ pc' = [pc EXCEPT ![r] = "done"]
            /\ UNCHANGED <<nextId, rq, loc>>

\* ------------------------------------------------------ /available-models
\* lines 20-76: read the caller's account and list the models of the provider
\* inferred from the name of the referenced key or bundle
AvailableModels(r) ==
  /\ Arrives(r)
  /\ \E uid \in Users, keyType \in KeyTypes, keyId \in KeyIds :
       LET user == db[uid]
           ti == FindIndexById(user.temporaryTokens, keyId)
           ki == FindIndexById(user.api_keys, keyId)
           name == IF keyType = "temp" THEN user.temporaryTokens[ti].name
                   ELSE user.api_keys[ki].name
       IN
       /\ rq' = [rq EXCEPT ![r] = [NoRq EXCEPT !.kind = "models", !.uid = uid,
                                     !.keyType = keyType, !.keyId = keyId,
                                     !.after = {q \in Reqs : Done(q)}]]
       /\ IF keyType = "temp" /\ ti = 0
          THEN Answer(r, 404, "Temporary API key not found")
          ELSE IF keyType = "user" /\ ki = 0
          THEN Answer(r, 404, "API key not found")
          ELSE IF keyType \notin {"temp", "user"}
          THEN Answer(r, 400, "Invalid key type")
          ELSE IF getProviderFromModel(name) = "unknown"
          THEN Answer(r, 500, "Server error")
          ELSE /\ res' = [res EXCEPT ![r] =
                            [NoRes EXCEPT !.status = 200, !.message = "models",
                                          !.provider = getProviderFromModel(name)]]
               /\ pc' = [pc EXCEPT ![r] = "done"]
               /\ UNCHANGED <<db, nextId, loc, txn>>

Next ==
  \E r \in Reqs :
    \/ BuyBegin(r)
    \/ BuyFetchSeller(r)
    \/ BuySaveBuyer(r)
    \/ BuySaveSeller(r)
    \/ BuyCommit(r)
    \/ ChatBegin(r)
    \/ ChatFetchSeller(r)
    \/ ChatUpstream(r)
    \/ ChatSave(r)
    \/ AvailableModels(r)

Spec == Init /\ [][Next]_vars

\* ------------------------------------------------------------- properties
IsBuy(r) == rq[r].kind = "buy"
IsChat(r) == rq[r].kind = "chat"
Succeeded(r) == Done(r) /\ res[r].status = 200

\* the step being taken is the commit of r's purchase
Commits(r) == IsBuy(r) /\ pc[r] = "commit" /\ res'[r].status = 200

\* neither request was answered before the other arrived
Concurrent(r, q) == r \notin rq[q].after /\ q \notin rq[r].after

\* pricePerToken of the bundle with this _id in a document (0 when absent)
PriceIn(doc, id) ==
  LET i == FindIndexById(doc.temporaryTokens, id)
  IN IF i = 0 THEN 0 ELSE doc.temporaryTokens[i].pricePerToken

\* C1: every successful purchase takes actualSpend = floor(a/p)*p <= a from the
\* buyer's balance and adds it to the seller's balance.
C1_PurchaseMovesActualSpend ==
  [][\A r \in Reqs :
       Commits(r) =>
         LET p == PriceIn(db[rq[r].sellerId], rq[r].tokenId)
             actualSpend == TokensToReceive(rq[r].amount, p) * p
         IN /\ p > 0
            /\ actualSpend <= rq[r].amount
            /\ db'[rq[r].uid].amount = db[rq[r].uid].amount - actualSpend
            /\ db'[rq[r].sellerId].amount = db[rq[r].sellerId].amount + actualSpend]_vars

\* The statement of C1 for purchases whose buyer is not the seller.
C1_DistinctAccounts ==
  [][\A r \in Reqs :
       (Commits(r) /\ rq[r].uid # rq[r].sellerId) =>
         LET p == PriceIn(db[rq[r].sellerId], rq[r].tokenId)
             actualSpend == TokensToReceive(rq[r].amount, p) * p
         IN /\ p > 0
            /\ actualSpend <= rq[r].amount
            /\ db'[rq[r].uid].amount = db[rq[r].uid].amount - actualSpend
            /\ db'[rq[r].sellerId].amount = db[rq[r].sellerId].amount + actualSpend]_vars

\* C2: two concurrent purchases from one seller bundle whose combined
\* tokensToTransfer exceeds its tokensRemaining do not both succeed; the tokens
\* granted by concurrent purchases never exceed what the bundle held before
\* them, and the bundle's counter is never negative.
C2_NoOverAllocation ==
  /\ \A r, q \in Reqs :
       (/\ r # q /\ IsBuy(r) /\ IsBuy(q) /\ Concurrent(r, q)
        /\ rq[r].sellerId = rq[q].sellerId /\ rq[r].tokenId = rq[q].tokenId
        /\ Succeeded(r) /\ Succeeded(q))
       => /\ loc[r].tokensToReceive + loc[q].tokensToReceive <= loc[r].seen
          /\ loc[r].tokensToReceive + loc[q].tokensToReceive <= loc[q].seen
  /\ \A u \in Users : \A i \in DOMAIN db[u].temporaryTokens :
       db[u].temporaryTokens[i].tokensRemaining >= 0

\* two buyers raced for more tokens than the bundle held: one was served, the
\* other's save hit the write conflict
C2_Witness ==
  \E r, q \in Reqs :
    /\ r # q /\ IsBuy(r) /\ IsBuy(q) /\ Concurrent(r, q)
    /\ rq[r].uid # rq[q].uid
    /\ rq[r].sellerId = rq[q].sellerId /\ rq[r].tokenId = rq[q].tokenId
    /\ Succeeded(r)
    /\ Done(q) /\ res[q].status = 500 /\ res[q].error = "WriteConflict"
    /\ loc[q].tokensToReceive > 0
    /\ loc[r].tokensToReceive + loc[q].tokensToReceive > loc[r].seen

\* C3: two concurrent /chat requests on one quota source holding 10 tokens, each
\* costing 6, end in exactly one successful debit and one insufficient-tokens
\* rejection; they never both succeed.
C3_NoDoubleSpend ==
  \A r, q \in Reqs :
    (/\ r # q /\ IsChat(r) /\ IsChat(q) /\ Concurrent(r, q)
     /\ rq[r].uid = rq[q].uid /\ rq[r].keyType = rq[q].keyType /\ rq[r].keyId = rq[q].keyId
     /\ rq[r].supply = 10 /\ rq[q].supply = 10
     /\ loc[r].tokensUsed = 6 /\ loc[q].tokensUsed = 6
     /\ Done(r) /\ Done(q)
     /\ res[r].status # 500 /\ res[q].status # 500)
    => /\ ~(res[r].status = 200 /\ res[q].status = 200)
       /\ {res[r].status, res[q].status} = {200, 400}

\* the step being taken belongs to the /buy-tokens request r
BuyStep(r) == rq'[r].kind = "buy" /\ pc'[r] # pc[r]

\* name of the bundle with this _id in a document
NameIn(doc, id) == doc.temporaryTokens[FindIndexById(doc.temporaryTokens, id)].name

\* tokensRemaining of the buyer-side bundle for (name, sellerId), 0 when absent
BuyerRem(doc, name, sellerId) ==
  LET i == ExistingTokenIndex(doc.temporaryTokens, name, sellerId)
  IN IF i = 0 THEN 0 ELSE doc.temporaryTokens[i].tokensRemaining

\* the four mutations of r's purchase all appear in the step
AllPresent(r) ==
  LET b == rq[r].uid
      s == rq[r].sellerId
      t == rq[r].tokenId
      n == loc[r].tokensToReceive
      spend == loc[r].actualAmount
      name == NameIn(db[s], t)
  IN /\ db'[b].amount = db[b].amount - spend
     /\ db'[s].amount = db[s].amount + spend
     /\ RemIn(db'[s], t) = RemIn(db[s], t) - n
     /\ BuyerRem(db'[b], name, s) = BuyerRem(db[b], name, s) + n

\* C4: a purchase is all-or-nothing: the store shows the buyer's balance
\* decrease, the seller's balance increase, the seller bundle decrement and the
\* buyer bundle increase of a purchase all together or not at all, and a
\* failing save or commit leaves both accounts as they were.
C4_AllOrNothing ==
  [][\A r \in Reqs :
       BuyStep(r) =>
         \/ ~Commits(r) /\ db' = db
         \/ Commits(r) /\ AllPresent(r)]_vars

\* The statement of C4 for purchases whose buyer is not the seller.
C4_DistinctAccounts ==
  [][\A r \in Reqs :
       BuyStep(r) =>
         \/ ~Commits(r) /\ db' = db
         \/ Commits(r) /\ (rq[r].uid # rq[r].sellerId => AllPresent(r))]_vars

\* C5: every account's balance is >= 0 in every state, committed or staged.
C5_BalanceNonNegative ==
  \A u \in Users :
    /\ db[u].amount >= 0
    /\ \A r \in Reqs : txn[r].snap[u].amount >= 0

\* one buyer raced two purchases that together cost more than the balance:
\* one was served and emptied the balance, the other was refused
C5_Witness ==
  \E r, q \in Reqs :
    /\ r # q /\ IsBuy(r) /\ IsBuy(q) /\ Concurrent(r, q)
    /\ rq[r].uid = rq[q].uid
    /\ Succeeded(r)
    /\ Done(q) /\ res[q].status = 500 /\ res[q].error = "WriteConflict"
    /\ loc[r].actualAmount + loc[q].actualAmount > rq[r].balance
    /\ db[rq[r].uid].amount = 0

NonNegativeQuota(doc) ==
  /\ \A i \in DOMAIN doc.temporaryTokens : doc.temporaryTokens[i].tokensRemaining >= 0
  /\ \A i \in DOMAIN doc.api_keys : doc.api_keys[i].available >= 0

\* C6: every bundle's tokensRemaining and every owned key's available are >= 0
\* in every state, committed or staged.
C6_QuotaNonNegative ==
  \A u \in Users :
    /\ NonNegativeQuota(db[u])
    /\ \A r \in Reqs : NonNegativeQuota(txn[r].snap[u])

\* two chat debits took an owned key to exactly 0
C6_Witness ==
  \E r, q \in Reqs :
    /\ IsChat(r) /\ IsChat(q) /\ rq[r].keyType = "user" /\ rq[q].keyType = "user"
    /\ rq[r].uid = rq[q].uid /\ rq[r].keyId = rq[q].keyId
    /\ Succeeded(r) /\ Succeeded(q)
    /\ \E i \in DOMAIN db[rq[r].uid].api_keys :
         /\ db[rq[r].uid].api_keys[i].id = rq[r].keyId
         /\ db[rq[r].uid].api_keys[i].available = 0

\* C7: a purchase never leaves the seller bundle below zero, and a purchase
\* that takes it to exactly 0 persists the seller's collection without it.
C7_SellerBundlePruned ==
  [][\A r \in Reqs :
       Commits(r) =>
         LET s == rq[r].sellerId
             t == rq[r].tokenId
             left == RemIn(db[s], t) - loc[r].tokensToReceive
         IN /\ left >= 0
            /\ left = 0 => FindIndexById(db'[s].temporaryTokens, t) = 0
            /\ left > 0 => RemIn(db'[s], t) = left
            /\ \A i \in DOMAIN db'[s].temporaryTokens :
                 db'[s].temporaryTokens[i].tokensRemaining > 0]_vars

\* a purchase bought everything the bundle held and the bundle is gone
C7_Witness ==
  \E r \in Reqs :
    /\ IsBuy(r) /\ Succeeded(r)
    /\ loc[r].tokensToReceive = loc[r].seen
    /\ rq[r].uid # rq[r].sellerId
    /\ FindIndexById(db[rq[r].sellerId].temporaryTokens, rq[r].tokenId) = 0

\* r2 repeats the purchase r1 after r1 succeeded, and the supply that is left
\* when r2 arrives does not cover it
UncoveredRepeat(r1, r2) ==
  /\ r1 # r2 /\ IsBuy(r1) /\ Succeeded(r1)
  /\ rq'[r2].kind = "buy" /\ r1 \in rq'[r2].after
  /\ rq'[r2].uid = rq[r1].uid /\ rq'[r2].sellerId = rq[r1].sellerId
  /\ rq'[r2].tokenId = rq[r1].tokenId /\ rq'[r2].amount = rq[r1].amount
  /\ rq'[r2].supply < loc[r1].tokensToReceive

\* the step being taken answers request r
Answers(r) == pc[r] # "done" /\ pc'[r] = "done"

\* C8 as claimed: every rejected /buy-tokens request leaves the accounts
\* unchanged, and a sequential repeat of a purchase that the remaining supply no
\* longer covers fails with insufficient supply, leaving the accounts as the
\* first purchase left them.
C8_RepeatFailsInsufficientSupply ==
  [][\A r \in Reqs :
       /\ (BuyStep(r) /\ ~Commits(r)) => db' = db
       /\ (Answers(r) /\ \E r1 \in Reqs : UncoveredRepeat(r1, r)) =>
            /\ res'[r].status = 400
            /\ res'[r].message = "Seller does not have enough tokens available"
            /\ db' = db]_vars

\* C8 as amended: every rejected /buy-tokens request leaves the accounts
\* unchanged, and a sequential repeat of a purchase that the remaining supply no
\* longer covers is rejected: with insufficient balance when the buyer's balance
\* is below the amount, else with token-not-found when the bundle was emptied
\* and removed, else with insufficient supply; the accounts stay as the first
\* purchase left them.
C8_RepeatRejected ==
  [][\A r \in Reqs :
       /\ (BuyStep(r) /\ ~Commits(r)) => db' = db
       /\ (Answers(r) /\ \E r1 \in Reqs : UncoveredRepeat(r1, r)) =>
            /\ res'[r].status \in {400, 404}
            /\ res'[r].message =
                 IF rq'[r].balance < rq'[r].amount THEN "Insufficient balance"
                 ELSE IF rq'[r].supply = 0 THEN "Token not found"
                 ELSE "Seller does not have enough tokens available"
            /\ res'[r].status = IF res'[r].message = "Token not found" THEN 404 ELSE 400
            /\ db' = db]_vars

\* a repeated purchase was refused for insufficient supply
C8_Witness ==
  \E r1, r2 \in Reqs :
    /\ r1 # r2 /\ IsBuy(r1) /\ IsBuy(r2) /\ Succeeded(r1) /\ r1 \in rq[r2].after
    /\ rq[r2].uid = rq[r1].uid /\ rq[r2].sellerId = rq[r1].sellerId
    /\ rq[r2].tokenId = rq[r1].tokenId /\ rq[r2].amount = rq[r1].amount
    /\ rq[r2].supply < loc[r1].tokensToReceive
    /\ Done(r2) /\ res[r2].status = 400
    /\ res[r2].message = "Seller does not have enough tokens available"
    /\ RemIn(db[rq[r1].sellerId], rq[r1].tokenId) = loc[r1].seen - loc[r1].tokensToReceive

\* the bundle with this _id as the seller listed it
Listed(s, t) == InitDb[s].temporaryTokens[FindIndexById(InitDb[s].temporaryTokens, t)]

\* positions of the bundles for (name, sellerId) in a document
Matching(doc, name, sellerId) ==
  {i \in DOMAIN doc.temporaryTokens :
     doc.temporaryTokens[i].name = name /\ doc.temporaryTokens[i].sellerId = sellerId}

\* the requests of R are successful purchases of buyer b from bundle t of seller s,
\* b held no bundle for it before, and no other request changed b's account
OnlyPurchases(R, b, s, t) ==
  /\ \A r \in R : IsBuy(r) /\ Succeeded(r) /\ rq[r].uid = b
                  /\ rq[r].sellerId = s /\ rq[r].tokenId = t
  /\ Matching(InitDb[b], Listed(s, t).name, s) = {}
  /\ \A q \in Reqs \ R : ~Done(q) \/ res[q].status # 200
                         \/ (rq[q].uid # b /\ rq[q].sellerId # b)

\* b holds exactly one bundle for bundle t of seller s, with n tokens and the
\* seller bundle's price, expiry, sellerId and originalApiKeyId
HoldsOne(b, s, t, n) ==
  LET m == Matching(db[b], Listed(s, t).name, s)
  IN /\ Cardinality(m) = 1
     /\ \A i \in m :
          /\ db[b].temporaryTokens[i].tokensRemaining = n
          /\ db[b].temporaryTokens[i].pricePerToken = Listed(s, t).pricePerToken
          /\ db[b].temporaryTokens[i].expiresAt = Listed(s, t).expiresAt
          /\ db[b].temporaryTokens[i].originalApiKeyId = Listed(s, t).originalApiKeyId

\* C9: a first purchase appends one buyer-side bundle carrying the seller
\* bundle's price, expiry, sellerId and originalApiKeyId; a second sequential
\* purchase of the same bundle merges into it, so that it holds the sum of the
\* two purchases' tokensToTransfer.
C9_PurchasesMerge ==
  \A r1, r2 \in Reqs :
    \A s \in Users, t \in TokenIds :
      FindIndexById(InitDb[s].temporaryTokens, t) # 0 =>
        /\ OnlyPurchases({r1}, rq[r1].uid, s, t)
             => HoldsOne(rq[r1].uid, s, t, loc[r1].tokensToReceive)
        /\ (r1 # r2 /\ r1 \in rq[r2].after /\ OnlyPurchases({r1, r2}, rq[r1].uid, s, t))
             => HoldsOne(rq[r1].uid, s, t,
                         loc[r1].tokensToReceive + loc[r2].tokensToReceive)

\* two sequential purchases of one bundle by a buyer who held none
C9_Witness ==
  \E r1, r2 \in Reqs :
    /\ r1 # r2 /\ r1 \in rq[r2].after
    /\ rq[r1].sellerId \in Users
    /\ FindIndexById(InitDb[rq[r1].sellerId].temporaryTokens, rq[r1].tokenId) # 0
    /\ OnlyPurchases({r1, r2}, rq[r1].uid, rq[r1].sellerId, rq[r1].tokenId)
    /\ HoldsOne(rq[r1].uid, rq[r1].sellerId, rq[r1].tokenId,
                loc[r1].tokensToReceive + loc[r2].tokensToReceive)

\* the quota the store holds for the source of chat request r
StoredQuota(r) ==
  IF rq[r].keyType = "temp" THEN RemIn(db[rq[r].uid], rq[r].keyId)
  ELSE LET i == FindIndexById(db[rq[r].uid].api_keys, rq[r].keyId)
       IN IF i = 0 THEN 0 ELSE db[rq[r].uid].api_keys[i].available

\* the step being taken is r's handling of the provider's answer
Metered(r) == IsChat(r) /\ pc[r] = "upstream" /\ loc'[r].tokensUsed > 0

\* C10: a /chat request whose tokensUsed exceeds the remaining quota of its
\* source is answered insufficient-tokens, debits nothing and leaves the
\* account unchanged.
C10_OverdraftRejected ==
  [][\A r \in Reqs :
       (Metered(r) /\ loc'[r].tokensUsed > StoredQuota(r)) =>
         /\ pc'[r] = "done"
         /\ res'[r].status = 400
         /\ db' = db]_vars

\* The statement of C10 with the quota as the handler loaded it (line 196).
C10_LoadedQuota ==
  [][\A r \in Reqs :
       (Metered(r) /\ loc'[r].tokensUsed > loc[r].seen) =>
         /\ pc'[r] = "done"
         /\ res'[r].status = 400
         /\ db' = db]_vars

\* the step being taken belongs to the /chat request r
ChatStep(r) == rq'[r].kind = "chat" /\ pc'[r] # pc[r]

\* the step being taken is the return of r's upstream call with an error
UpstreamFails(r) == IsChat(r) /\ pc[r] = "upstream" /\ loc'[r].sent = "failed"

\* C11: when the upstream call of a /chat request errors or times out, the
\* request ends with an error and no debit: nothing was staged or written, and
\* no step of a /chat request before its save changes the store.
C11_UpstreamErrorNoDebit ==
  [][\A r \in Reqs :
       /\ UpstreamFails(r) =>
            /\ pc'[r] = "done"
            /\ res'[r].status = 500
            /\ loc'[r].userDelta = NoDelta
            /\ db' = db
       /\ (ChatStep(r) /\ pc[r] # "save") => db' = db]_vars

\* an upstream call failed and every account is as it was before the request
C11_Witness ==
  \E r \in Reqs :
    /\ IsChat(r) /\ Done(r) /\ loc[r].sent = "failed"
    /\ res[r].status = 500 /\ res[r].error = "upstream"
    /\ db = InitDb

\* the /chat request r references a bundle that expired before the request
ExpiredSource(r) ==
  /\ IsChat(r) /\ rq[r].keyType = "temp" /\ rq[r].message # 0
  /\ rq[r].expiresAt # 0 /\ rq[r].expiresAt < CurrentTime

\* C12: a /chat request on a purchased bundle whose expiresAt is earlier than
\* the current time fails with an Expired error; no upstream call is made for it
\* and nothing is debited.
C12_ExpiredBundleRefused ==
  \A r \in Reqs :
    ExpiredSource(r) =>
      /\ pc[r] \notin {"upstream", "save"}
      /\ loc[r].sent = "none"
      /\ loc[r].userDelta = NoDelta
      /\ Done(r) => res[r].status \in {400, 403, 410} /\ res[r].message = "Expired"

\* the /chat request r found its source, and the source read zero tokens
ResolvedZero(r) ==
  /\ IsChat(r) /\ rq[r].message # 0 /\ rq[r].name # <<>> /\ rq[r].supply = 0

\* C13: a /chat request whose source (bundle or owned key) reads zero remaining
\* tokens when it is resolved is rejected as exhausted; no upstream call is ever
\* made for it.
C13_ExhaustedBeforeSend ==
  \A r \in Reqs :
    ResolvedZero(r) =>
      /\ pc[r] # "upstream"
      /\ loc[r].sent = "none"
      /\ Done(r) => res[r].status = 400

\* C14: a chat debit changes no account but the caller's (so a debit of a
\* purchased bundle leaves the seller's listed bundle, owned key and balance as
\* they were), and a purchase changes no account but its buyer's and seller's.
C14_OnlyOwnAccounts ==
  [][\A r \in Reqs :
       /\ ChatStep(r) => \A u \in Users \ {rq'[r].uid} : db'[u] = db[u]
       /\ BuyStep(r) =>
            \A u \in Users \ {rq'[r].uid, rq'[r].sellerId} : db'[u] = db[u]]_vars

\* a buyer's chat debited a bundle bought from another account, whose document
\* is as it was
C14_Witness ==
  \E r \in Reqs :
    /\ IsChat(r) /\ Succeeded(r) /\ rq[r].keyType = "temp"
    /\ LET held == InitDb[rq[r].uid].temporaryTokens
           i == FindIndexById(held, rq[r].keyId)
       IN /\ i # 0
          /\ held[i].sellerId # rq[r].uid
          /\ db[held[i].sellerId] = InitDb[held[i].sellerId]
          /\ RemIn(db[rq[r].uid], rq[r].keyId) = held[i].tokensRemaining - loc[r].tokensUsed

\* r and q reference the same source of the same account
SameSource(r, q) ==
  /\ rq[r].uid = rq[q].uid /\ rq[r].keyType = rq[q].keyType /\ rq[r].keyId = rq[q].keyId

\* C15: the provider of a /chat request does not depend on modelId and is the
\* one inferred from the stored name of the referenced source; for a purchased
\* bundle it is inferred from the bundle's own name, as /available-models does.
C15_ProviderFromBundleName ==
  \A r \in Reqs :
    (IsChat(r) /\ loc[r].provider # "none") =>
      /\ loc[r].provider = getProviderFromModel(rq[r].name)
      /\ \A q \in Reqs :
           (rq[q].kind = "models" /\ SameSource(r, q) /\ Succeeded(q))
             => res[q].provider = loc[r].provider
      /\ \A q \in Reqs :
           (IsChat(q) /\ SameSource(r, q) /\ loc[q].provider # "none")
             => loc[q].provider = loc[r].provider

\* The part of C15 about client input: two /chat requests on one source use
\* the same provider whatever their modelId.
C15_NotClientSupplied ==
  \A r, q \in Reqs :
    (/\ IsChat(r) /\ IsChat(q) /\ SameSource(r, q)
     /\ loc[r].provider # "none" /\ loc[q].provider # "none")
    => loc[q].provider = loc[r].provider

\* the quota a store holds for the source of chat request r
QuotaIn(d, r) ==
  IF rq[r].keyType = "temp" THEN RemIn(d[rq[r].uid], rq[r].keyId)
  ELSE LET i == FindIndexById(d[rq[r].uid].api_keys, rq[r].keyId)
       IN IF i = 0 THEN 0 ELSE d[rq[r].uid].api_keys[i].available

\* the least n with 4n >= len
LeastQuarters(len) == CHOOSE n \in 0..len : 4 * n >= len /\ 4 * (n - 1) < len

\* the step being taken is the successful save of r's debit
ChatDebits(r) == IsChat(r) /\ pc[r] = "save" /\ res'[r].status = 200

C17_EmptiedBundleRemovedKeyKept ==
  [][\A r \in Reqs :
       ChatDebits(r) =>
         LET acc == db'[rq[r].uid]
             left == loc[r].srcRem
         IN IF rq[r].keyType = "temp"
            THEN IF left = 0
                 THEN FindIndexById(acc.temporaryTokens, rq[r].keyId) = 0
                 ELSE /\ FindIndexById(acc.temporaryTokens, rq[r].keyId) # 0
                      /\ RemIn(acc, rq[r].keyId) = left
            ELSE LET i == FindIndexById(acc.api_keys, rq[r].keyId)
                 IN /\ i # 0
                    /\ acc.api_keys[i].available = left
                    /\ Len(acc.api_keys) = Len(db[rq[r].uid].api_keys)]_vars

\* one chat emptied a purchased bundle, which is gone, and another emptied an
\* owned key, which is still there with available = 0
C17_Witness ==
  \E r, q \in Reqs :
    /\ IsChat(r) /\ Succeeded(r) /\ rq[r].keyType = "temp" /\ loc[r].srcRem = 0
    /\ FindIndexById(db[rq[r].uid].temporaryTokens, rq[r].keyId) = 0
    /\ IsChat(q) /\ Succeeded(q) /\ rq[q].keyType = "user" /\ loc[q].srcRem = 0
    /\ LET i == FindIndexById(db[rq[q].uid].api_keys, rq[q].keyId)
       IN i # 0 /\ db[rq[q].uid].api_keys[i].available = 0

\* the sum of the function f over the finite set S
RECURSIVE SumOver(_, _)
SumOver(S, f) ==
  IF S = {} THEN 0
  ELSE LET x == CHOOSE y \in S : TRUE IN f[x] + SumOver(S \ {x}, f)

\* the money all accounts of a store hold
TotalBalance(d) == SumOver(Users, [u \in Users |-> d[u].amount])

\* C18: money is conserved: the sum of all balances is the same after any
\* /buy-tokens request as before it, also when buyer and seller are one account.
C18_MoneyConserved == TotalBalance(db) = TotalBalance(InitDb)

\* The statement of C18 while no purchase from the caller's own bundle commits.
C18_DistinctAccounts ==
  (\A r \in Reqs : (IsBuy(r) /\ Succeeded(r)) => rq[r].uid # rq[r].sellerId)
    => TotalBalance(db) = TotalBalance(InitDb)

\* the tokens all bundles of a store hold
TotalTokens(d) ==
  SumOver(Users,
          [u \in Users |->
             SumOver(DOMAIN d[u].temporaryTokens,
                     [i \in DOMAIN d[u].temporaryTokens |->
                        d[u].temporaryTokens[i].tokensRemaining])])

\* the tokensUsed of the successful chat requests among R
UsedBy(R) ==
  SumOver({r \in R : IsChat(r) /\ Succeeded(r)}, [r \in Reqs |-> loc[r].tokensUsed])

\* no account has bought from a bundle of its own
NoSelfPurchase ==
  \A r \in Reqs : (IsBuy(r) /\ Succeeded(r)) => rq[r].uid # rq[r].sellerId

\* C19: tokens are conserved with no lost update: purchases leave the total of
\* all bundles unchanged and every successful chat takes its tokensUsed from its
\* source, so the bundles hold the initial total minus what successful chats on
\* bundles used, and every owned key holds its initial quota minus what
\* successful chats on it used. Stated for the behaviours in which buyer and
\* seller are different accounts.
C19_TokensConserved ==
  NoSelfPurchase =>
  /\ TotalTokens(db) =
       TotalTokens(InitDb) - UsedBy({r \in Reqs : rq[r].keyType = "temp"})
  /\ \A u \in Users : \A i \in DOMAIN InitDb[u].api_keys :
       /\ i \in DOMAIN db[u].api_keys
       /\ db[u].api_keys[i].available =
            InitDb[u].api_keys[i].available
              - UsedBy({r \in Reqs : /\ rq[r].keyType = "user" /\ rq[r].uid = u
                                     /\ rq[r].keyId = InitDb[u].api_keys[i].id})

\* The part of C19 about purchases: while no chat has debited anything and
\* buyer and seller are different accounts, the bundles hold the initial total.
C19_PurchasesConserve ==
  (NoSelfPurchase /\ \A r \in Reqs : ~(IsChat(r) /\ Succeeded(r)))
    => TotalTokens(db) = TotalTokens(InitDb)

\* C20: every /buy-tokens request that has sent its response has committed or
\* aborted the transaction it opened.
C20_TransactionClosed ==
  \A r \in Reqs :
    (IsBuy(r) /\ Done(r)) => txn[r].state \in {"committed", "aborted"}

\* The statement of C20 for the responses sent after the saves: success and 500.
C20_ClosedAfterSaves ==
  \A r \in Reqs :
    (IsBuy(r) /\ Done(r) /\ res[r].status \in {200, 500})
      => txn[r].state \in {"committed", "aborted"}

====
